---- MODULE Spec2Model ----
(***************************************************************************)
(* Model of src/k12_cli.py: the organization search (search_schools), the  *)
(* candidate selector (display_schools_cli), the submission protocol       *)
(* (submit_sheerid) and the interactive flow that composes them            *)
(* (main_flow).                                                            *)
(***************************************************************************)
EXTENDS Integers, Sequences, FiniteSets, TLC

VARIABLES
    sPc,            \* search_schools: position ("idle","loop","aggregate","returned","raised")
    catIdx,         \* search_schools: index of the school_type being looked up
    lookups,        \* search_schools: outcome of each category lookup issued so far
    all_schools,    \* search_schools: all_schools
    schools,        \* value returned by search_schools / argument of display_schools_cli
    selPc,          \* display_schools_cli: position ("idle","prompt","returned","raised","interrupted")
    stored,         \* display_schools_cli: user_data[user_id]["school_<idx>"], by idx+1
    choice,         \* display_schools_cli: last value returned by prompt()
    selRet,         \* display_schools_cli: returned value, NoIndex before it returns
    pc,             \* submit_sheerid: position
    school,         \* submit_sheerid: the school argument
    requests,       \* submit_sheerid: requests issued so far, in order
    responses,      \* submit_sheerid: outcome of each request issued so far
    documents,      \* submit_sheerid: documents (step4_data.get("documents", []))
    result,         \* submit_sheerid: returned dict, NoResult before it returns
    mPc,            \* main_flow: position ("off" when main_flow is not running)
    url,            \* main_flow: the last line read at the URL prompt
    user_data,      \* main_flow: user_data[user_id] without the school_<idx> entries
    queries,        \* main_flow: number of calls of search_schools so far
    submitCalls,    \* main_flow: number of calls of submit_sheerid so far
    interrupted     \* main: a KeyboardInterrupt was raised at a prompt

vars == <<sPc, catIdx, lookups, all_schools, schools, selPc, stored, choice,
          selRet, pc, school, requests, responses, documents, result,
          mPc, url, user_data, queries, submitCalls, interrupted>>

searchVars == <<sPc, catIdx, lookups, all_schools, schools>>
selectVars == <<selPc, stored, choice, selRet>>
submitVars == <<pc, school, requests, responses, documents, result>>
mainVars == <<mPc, url, user_data, queries, submitCalls, interrupted>>

-----------------------------------------------------------------------------
(* Bounds of the model *)

MaxLen == 2          \* longest arbitrary response array of a category lookup
MaxId == 2           \* largest identifier in an arbitrary response array
LongSlack == 1       \* long response arrays have MaxResults-LongSlack .. MaxResults+LongSlack entries
MaxInputLen == 2     \* longest line the operator types at the selection prompt
MaxSchools == 3      \* longest candidate list handed to the selector on its own
MaxDocs == 2         \* longest documents array in the upload-slot response
MaxQueries == 2      \* school queries of one run of main_flow (the loop itself is unbounded)

(* Program constants *)

MaxResults == 20     \* unique_schools[:20]
IdLen == 24          \* {24} in the verificationId pattern

-----------------------------------------------------------------------------
(* Values *)

SchoolTypes == <<"K12", "HIGH_SCHOOL">>

Names == {"A", "B"}

\* Identifier 0 stands for a falsy id (missing key, None, 0, ""); identifier
\* NonNumericId stands for a truthy identifier int() cannot convert ("abc").
NonNumericId == -1

\* A dict element of a response array; kind "other" is an array element that
\* is not a dict (school.get raises AttributeError).
Rec(i, n) == [kind |-> "dict", id |-> i, name |-> n]

NotADict == [kind |-> "other", id |-> 0, name |-> "A"]

SmallRecords == {Rec(i, n) : i \in 0..MaxId, n \in Names} \cup {NotADict}

SeqsUpTo(S, n) == UNION {[1..k -> S] : k \in 0..n}

RangeList(n, base, nm) == [i \in 1..n |-> Rec(base + i, nm)]

LongLens == {n \in (MaxResults - LongSlack)..(MaxResults + LongSlack) : n > 0}

\* Two response arrays sharing exactly one identifier: three K12 results and
\* two HIGH_SCHOOL results.
ScenarioK12 == <<Rec(1, "A"), Rec(2, "A"), Rec(3, "A")>>

ScenarioHigh == <<Rec(3, "B"), Rec(4, "B")>>

\* Response arrays a category lookup can return: every short array, long
\* arrays of distinct identifiers starting at two different offsets, and the
\* two scenario arrays.
Arrays ==
    SeqsUpTo(SmallRecords, MaxLen)
        \cup {RangeList(n, b, nm) : n \in LongLens, b \in {0, MaxResults \div 2}, nm \in Names}
        \cup {ScenarioK12, ScenarioHigh}

\* Outcome of one category lookup (lines 66-83).
LookupOutcomes ==
    {[kind |-> "status", data |-> <<>>],       \* resp.status_code != 200
     [kind |-> "notlist", data |-> <<>>],      \* 200, body is JSON but not a list
     [kind |-> "exception", data |-> <<>>]}    \* client.get / resp.json raised an Exception
        \cup {[kind |-> "list", data |-> a] : a \in Arrays}

-----------------------------------------------------------------------------
(* search_schools *)

\* The deduplication loop without the seen_ids test.
RECURSIVE DedupeFromKeepAll(_, _, _, _)
DedupeFromKeepAll(all, i, seen_ids, unique_schools) ==
    IF i > Len(all) THEN [raised |-> FALSE, unique |-> unique_schools]
    ELSE IF all[i].kind # "dict" THEN [raised |-> TRUE, unique |-> <<>>]
    ELSE IF all[i].id # 0
         THEN DedupeFromKeepAll(all, i + 1, seen_ids, Append(unique_schools, all[i]))
         ELSE DedupeFromKeepAll(all, i + 1, seen_ids, unique_schools)

\* Lines 86-92: the loop over all_schools from position i, with seen_ids and
\* unique_schools as accumulated so far.
RECURSIVE DedupeFrom(_, _, _, _)
DedupeFrom(all, i, seen_ids, unique_schools) ==
    IF i > Len(all) THEN [raised |-> FALSE, unique |-> unique_schools]
    ELSE IF all[i].kind # "dict" THEN [raised |-> TRUE, unique |-> <<>>]
    ELSE LET school_id == all[i].id IN
         IF school_id # 0 /\ school_id \notin seen_ids
         THEN DedupeFrom(all, i + 1, seen_ids \cup {school_id},
                         Append(unique_schools, all[i]))
         ELSE DedupeFrom(all, i + 1, seen_ids, unique_schools)

Dedupe(all) == DedupeFrom(all, 1, {}, <<>>)

\* The return without the slice.
TruncateNone(s) == s

\* Line 101: unique_schools[:20]
Truncate(s) == IF Len(s) <= MaxResults THEN s ELSE SubSeq(s, 1, MaxResults)

\* Line 47/52: the call of search_schools.
SearchStart ==
    /\ sPc = "idle"
    /\ sPc' = "loop"
    /\ catIdx' = 1
    /\ lookups' = <<>>
    /\ all_schools' = <<>>
    /\ UNCHANGED <<schools>>

\* The loop iteration without the except clause: an exception of the lookup
\* leaves search_schools.
SearchLookupNoExcept ==
    /\ sPc = "loop"
    /\ catIdx <= Len(SchoolTypes)
    /\ \E o \in LookupOutcomes :
          /\ lookups' = Append(lookups, o)
          /\ all_schools' = IF o.kind = "list" THEN all_schools \o o.data
                            ELSE all_schools
          /\ sPc' = IF o.kind = "exception" THEN "raised"
                    ELSE IF catIdx = Len(SchoolTypes) THEN "aggregate" ELSE "loop"
    /\ catIdx' = catIdx + 1
    /\ UNCHANGED <<schools>>

\* The loop iteration putting the results of a category in front of the
\* earlier ones.
SearchLookupPrepend ==
    /\ sPc = "loop"
    /\ catIdx <= Len(SchoolTypes)
    /\ \E o \in LookupOutcomes :
          /\ lookups' = Append(lookups, o)
          /\ all_schools' = IF o.kind = "list" THEN o.data \o all_schools
                            ELSE all_schools
    /\ catIdx' = catIdx + 1
    /\ sPc' = IF catIdx = Len(SchoolTypes) THEN "aggregate" ELSE "loop"
    /\ UNCHANGED <<schools>>

\* Lines 55-83: one iteration of the loop over the school types.
SearchLookup ==
    /\ sPc = "loop"
    /\ catIdx <= Len(SchoolTypes)
    /\ \E o \in LookupOutcomes :
          /\ lookups' = Append(lookups, o)
          /\ all_schools' = IF o.kind = "list" THEN all_schools \o o.data
                            ELSE all_schools
    /\ catIdx' = catIdx + 1
    /\ sPc' = IF catIdx = Len(SchoolTypes) THEN "aggregate" ELSE "loop"
    /\ UNCHANGED <<schools>>

\* Lines 85-101: deduplicate, truncate and return (or propagate the error
\* raised inside the deduplication loop, which no try block covers).
SearchAggregate ==
    /\ sPc = "aggregate"
    /\ LET d == Dedupe(all_schools) IN
          IF d.raised
          THEN /\ sPc' = "raised"
               /\ UNCHANGED schools
          ELSE /\ sPc' = "returned"
               /\ schools' = Truncate(d.unique)
    /\ UNCHANGED <<catIdx, lookups, all_schools>>

-----------------------------------------------------------------------------
(* display_schools_cli *)

NoIndex == -99

\* Characters the operator can type.  "sup2" is the superscript two (U+00B2):
\* str.isdigit() accepts it, int() does not.
DecimalDigits == {"0", "1", "2", "3", "9"}

OtherDigits == {"sup2"}

Whitespace == {" "}

Alphabet == DecimalDigits \cup OtherDigits \cup Whitespace \cup {"a"}

Lines == SeqsUpTo(Alphabet, MaxInputLen)

\* Candidate lists the selector is given: non-empty, identifiers distinct.
CandidateLists == {RangeList(n, 0, nm) : n \in 1..MaxSchools, nm \in Names}

\* str.strip() (line 40)
RECURSIVE StripLeft(_)
StripLeft(s) ==
    IF s # <<>> /\ Head(s) \in Whitespace THEN StripLeft(Tail(s)) ELSE s

RECURSIVE StripRight(_)
StripRight(s) ==
    IF s # <<>> /\ s[Len(s)] \in Whitespace
    THEN StripRight(SubSeq(s, 1, Len(s) - 1)) ELSE s

Strip(s) == StripRight(StripLeft(s))

\* str.isdigit() (line 132): non-empty and every character is a digit.
IsDigit(s) == s # <<>> /\ \A i \in DOMAIN s : s[i] \in DecimalDigits \cup OtherDigits

DigitValue(c) ==
    CASE c = "0" -> 0 [] c = "1" -> 1 [] c = "2" -> 2 [] c = "3" -> 3 [] c = "9" -> 9

\* int() (line 135) raises ValueError unless every character is a decimal digit.
IntRaises(s) == s = <<>> \/ \E i \in DOMAIN s : s[i] \notin DecimalDigits

RECURSIVE IntOf(_)
IntOf(s) ==
    IF s = <<>> THEN 0
    ELSE 10 * IntOf(SubSeq(s, 1, Len(s) - 1)) + DigitValue(s[Len(s)])

\* The range test with its lower bound off by one.
InRangeFromZero(choice_int, n) == 0 <= choice_int /\ choice_int <= n

\* Line 136: 1 <= choice_int <= len(schools)
InRange(choice_int, n) == 1 <= choice_int /\ choice_int <= n

\* Lines 109-128: print the list and store every school in user_data.
SelectStart ==
    /\ selPc = "idle"
    /\ stored' = schools
    /\ selPc' = "prompt"
    /\ UNCHANGED <<choice, selRet>>

\* Lines 130-139: one iteration of the selection loop, on a line read by prompt().
SelectRead ==
    /\ selPc = "prompt"
    /\ \E ln \in Lines :
          LET c == Strip(ln) IN
          /\ choice' = c
          /\ IF ~IsDigit(c)
             THEN /\ selPc' = "prompt"
                  /\ UNCHANGED selRet
             ELSE IF IntRaises(c)
             THEN /\ selPc' = "raised"
                  /\ UNCHANGED selRet
             ELSE IF InRange(IntOf(c), Len(schools))
             THEN /\ selPc' = "returned"
                  /\ selRet' = IntOf(c) - 1
             ELSE /\ selPc' = "prompt"
                  /\ UNCHANGED selRet
    /\ UNCHANGED stored

\* Line 40: input() raises KeyboardInterrupt or EOFError instead of returning a line.
SelectInterrupt ==
    /\ selPc = "prompt"
    /\ selPc' = "interrupted"
    /\ UNCHANGED <<stored, choice, selRet>>

-----------------------------------------------------------------------------
(* submit_sheerid *)

Statuses == {200, 404, 500}

\* A school record without a "name" key.
NoName == "<missing>"

\* The school arguments of submit_sheerid on its own.
SubmitSchools == {Rec(i, n) : i \in {0, 1, NonNumericId}, n \in {"A", NoName}}

NoBody == [kind |-> "none", docs |-> <<>>]

\* Outcome of one network call: a response with a status code, a
\* httpx.TimeoutException, or another exception of the transport.
CallOutcomes ==
    {[kind |-> "status", code |-> c, body |-> NoBody] : c \in Statuses}
        \cup {[kind |-> "timeout", code |-> 0, body |-> NoBody],
              [kind |-> "error", code |-> 0, body |-> NoBody]}

\* Entries of the documents array: the uploadUrl of the entry, NoUrl for an
\* entry without that key.
NoUrl == "<missing>"

UploadUrls == {"urlA", "urlB"}

\* Bodies of a 200 upload-slot response: not JSON, a JSON object without
\* "documents", one whose "documents" is null, or one with a documents array.
Step4Bodies ==
    {[kind |-> "notjson", docs |-> <<>>],
     [kind |-> "nodocs", docs |-> <<>>],
     [kind |-> "null", docs |-> <<>>]}
        \cup {[kind |-> "docs", docs |-> d] : d \in SeqsUpTo(UploadUrls \cup {NoUrl}, MaxDocs)}

Step4Outcomes ==
    {o \in CallOutcomes : ~(o.kind = "status" /\ o.code = 200)}
        \cup {[kind |-> "status", code |-> 200, body |-> b] : b \in Step4Bodies}

\* str() of a status code in an f-string.
DigitChar(d) ==
    CASE d = 0 -> "0" [] d = 1 -> "1" [] d = 2 -> "2" [] d = 3 -> "3" [] d = 4 -> "4"
      [] d = 5 -> "5" [] d = 6 -> "6" [] d = 7 -> "7" [] d = 8 -> "8" [] d = 9 -> "9"

RECURSIVE IntStr(_)
IntStr(n) == IF n < 10 THEN DigitChar(n) ELSE IntStr(n \div 10) \o DigitChar(n % 10)

NoResult == [success |-> FALSE, message |-> "none"]

Failure(msg) == [success |-> FALSE, message |-> msg]

\* The handlers with the httpx.TimeoutException clause missing.
ExceptionResultGeneric(kind, desc) == Failure("Submission error: " \o desc)

\* Lines 280-287: the two except clauses of submit_sheerid.
ExceptionResult(kind, desc) ==
    IF kind = "timeout" THEN Failure("Request timeout - please try again")
    ELSE Failure("Submission error: " \o desc)

\* str(e) of the exception a failed call raises.
CallExcText(kind) == IF kind = "timeout" THEN "timed out" ELSE "connection failed"

\* The body built without int() and without reading the name.
BodyErrorsNone(sch) == {"ok"}

\* Lines 188-189: int(school["id"]) and school["name"] can raise; a falsy id
\* is a missing key, None or "" (all raise) or the integer 0 (converts).
BodyErrors(sch) ==
    LET nameError == IF sch.name = NoName THEN "'name'" ELSE "ok" IN
    IF sch.id = NonNumericId THEN {"invalid literal for int()"}
    ELSE IF sch.id = 0
    THEN {"'id'", "int() argument", "invalid literal for int()", nameError}
    ELSE {nameError}

Request(m, u, ct) == [method |-> m, url |-> u, ctype |-> ct]

\* The threshold of the documents test off by one.
TooFewDocumentsBelowOne(d) == Len(d) < 1

\* Line 243: len(documents) < 2
TooFewDocuments(d) == Len(d) < 2

\* Lines 164-193: derive the ancillary values and build step2_body.
SubmitStart ==
    /\ pc = "idle"
    /\ \E e \in BodyErrors(school) :
          IF e = "ok"
          THEN /\ pc' = "step2"
               /\ UNCHANGED result
          ELSE /\ pc' = "done"
               /\ result' = ExceptionResult("error", e)
    /\ UNCHANGED <<school, requests, responses, documents>>

\* Step 2 retried after a non-200 status.
Step2Retry ==
    /\ pc = "step2"
    /\ requests' = Append(requests, Request("POST", "step/collectTeacherPersonalInfo", "json"))
    /\ \E o \in CallOutcomes :
          /\ responses' = Append(responses, o)
          /\ IF o.kind # "status"
             THEN /\ pc' = "done"
                  /\ result' = ExceptionResult(o.kind, CallExcText(o.kind))
             ELSE IF o.code # 200
             THEN /\ pc' = IF Len(requests) = 0 THEN "step2" ELSE "done"
                  /\ result' = IF Len(requests) = 0 THEN result
                               ELSE Failure("Step 2 failed: " \o IntStr(o.code))
             ELSE /\ pc' = "step3"
                  /\ UNCHANGED result
    /\ UNCHANGED <<school, documents>>

\* Step 2 without the status test.
Step2Ungated ==
    /\ pc = "step2"
    /\ requests' = Append(requests, Request("POST", "step/collectTeacherPersonalInfo", "json"))
    /\ \E o \in CallOutcomes :
          /\ responses' = Append(responses, o)
          /\ IF o.kind # "status"
             THEN /\ pc' = "done"
                  /\ result' = ExceptionResult(o.kind, CallExcText(o.kind))
             ELSE /\ pc' = "step3"
                  /\ UNCHANGED result
    /\ UNCHANGED <<school, documents>>

\* Lines 195-203: step 2, the personal-info POST.
Step2 ==
    /\ pc = "step2"
    /\ requests' = Append(requests, Request("POST", "step/collectTeacherPersonalInfo", "json"))
    /\ \E o \in CallOutcomes :
          /\ responses' = Append(responses, o)
          /\ IF o.kind # "status"
             THEN /\ pc' = "done"
                  /\ result' = ExceptionResult(o.kind, CallExcText(o.kind))
             ELSE IF o.code # 200
             THEN /\ pc' = "done"
                  /\ result' = Failure("Step 2 failed: " \o IntStr(o.code))
             ELSE /\ pc' = "step3"
                  /\ UNCHANGED result
    /\ UNCHANGED <<school, documents>>

\* Step 3 with the timeout of the SSO delete swallowed.
Step3TimeoutIgnored ==
    /\ pc = "step3"
    /\ requests' = Append(requests, Request("DELETE", "step/sso", ""))
    /\ \E o \in CallOutcomes :
          /\ responses' = Append(responses, o)
          /\ IF o.kind = "error"
             THEN /\ pc' = "done"
                  /\ result' = ExceptionResult(o.kind, CallExcText(o.kind))
             ELSE /\ pc' = "step4"
                  /\ UNCHANGED result
    /\ UNCHANGED <<school, documents>>

\* Lines 205-211: step 3, the SSO DELETE; its status is only printed.
Step3 ==
    /\ pc = "step3"
    /\ requests' = Append(requests, Request("DELETE", "step/sso", ""))
    /\ \E o \in CallOutcomes :
          /\ responses' = Append(responses, o)
          /\ IF o.kind # "status"
             THEN /\ pc' = "done"
                  /\ result' = ExceptionResult(o.kind, CallExcText(o.kind))
             ELSE /\ pc' = "step4"
                  /\ UNCHANGED result
    /\ UNCHANGED <<school, documents>>

\* Lines 213-248: step 4, the upload-slot POST and the test of its documents.
Step4 ==
    /\ pc = "step4"
    /\ requests' = Append(requests, Request("POST", "step/docUpload", "json"))
    /\ \E o \in Step4Outcomes :
          /\ responses' = Append(responses, o)
          /\ IF o.kind # "status"
             THEN /\ pc' = "done"
                  /\ result' = ExceptionResult(o.kind, CallExcText(o.kind))
                  /\ UNCHANGED documents
             ELSE IF o.code # 200
             THEN /\ pc' = "done"
                  /\ result' = Failure("Step 4 failed: " \o IntStr(o.code))
                  /\ UNCHANGED documents
             ELSE IF o.body.kind = "notjson"
             THEN /\ pc' = "done"
                  /\ result' = ExceptionResult("error", "Expecting value")
                  /\ UNCHANGED documents
             ELSE IF o.body.kind = "null"
             THEN /\ pc' = "done"
                  /\ result' = ExceptionResult("error", "object of type 'NoneType' has no len()")
                  /\ UNCHANGED documents
             ELSE /\ documents' = o.body.docs
                  /\ IF TooFewDocuments(o.body.docs)
                     THEN /\ pc' = "done"
                          /\ result' = Failure("No upload URLs received from SheerID")
                     ELSE /\ pc' = "step5pdf"
                          /\ UNCHANGED result
    /\ UNCHANGED <<school>>

\* One document transfer (lines 253-259 for k = 1, lines 261-267 for k = 2):
\* documents[k-1]["uploadUrl"], then the PUT; its status is only printed.
Transfer(k, ctype, next) ==
    IF k > Len(documents)
    THEN /\ pc' = "done"
         /\ result' = ExceptionResult("error", "list index out of range")
         /\ UNCHANGED <<requests, responses>>
    ELSE IF documents[k] = NoUrl
    THEN /\ pc' = "done"
         /\ result' = ExceptionResult("error", "'uploadUrl'")
         /\ UNCHANGED <<requests, responses>>
    ELSE /\ requests' = Append(requests, Request("PUT", documents[k], ctype))
         /\ \E o \in CallOutcomes :
               /\ responses' = Append(responses, o)
               /\ IF o.kind # "status"
                  THEN /\ pc' = "done"
                       /\ result' = ExceptionResult(o.kind, CallExcText(o.kind))
                  ELSE /\ pc' = next
                       /\ UNCHANGED result

\* The PDF transfer with its status treated as a gate.
Step5PdfGated ==
    /\ pc = "step5pdf"
    /\ documents # <<>> /\ documents[1] # NoUrl
    /\ requests' = Append(requests, Request("PUT", documents[1], "application/pdf"))
    /\ \E o \in CallOutcomes :
          /\ responses' = Append(responses, o)
          /\ IF o.kind # "status"
             THEN /\ pc' = "done"
                  /\ result' = ExceptionResult(o.kind, CallExcText(o.kind))
             ELSE IF o.code # 200
             THEN /\ pc' = "done"
                  /\ result' = Failure("Step 5 failed: " \o IntStr(o.code))
             ELSE /\ pc' = "step5png"
                  /\ UNCHANGED result
    /\ UNCHANGED <<school, documents>>

\* Lines 250-259: step 5, the PDF transfer.
Step5Pdf ==
    /\ pc = "step5pdf"
    /\ Transfer(1, "application/pdf", "step5png")
    /\ UNCHANGED <<school, documents>>

\* The PNG transfer sent to the first upload target.
Step5PngFirstTarget ==
    /\ pc = "step5png"
    /\ Transfer(1, "image/png", "step6")
    /\ UNCHANGED <<school, documents>>

\* Lines 261-267: step 5, the PNG transfer.
Step5Png ==
    /\ pc = "step5png"
    /\ Transfer(2, "image/png", "step6")
    /\ UNCHANGED <<school, documents>>

\* Step 6 outside the try block: an exception of the call leaves submit_sheerid.
Step6Uncaught ==
    /\ pc = "step6"
    /\ requests' = Append(requests, Request("POST", "step/completeDocUpload", ""))
    /\ \E o \in CallOutcomes :
          /\ responses' = Append(responses, o)
          /\ IF o.kind # "status"
             THEN /\ pc' = "raised"
                  /\ UNCHANGED result
             ELSE /\ pc' = "done"
                  /\ result' = [success |-> TRUE, message |-> "Submitted successfully"]
    /\ UNCHANGED <<school, documents>>

\* Lines 269-278: step 6, the completion POST, and the success result.
Step6 ==
    /\ pc = "step6"
    /\ requests' = Append(requests, Request("POST", "step/completeDocUpload", ""))
    /\ \E o \in CallOutcomes :
          /\ responses' = Append(responses, o)
          /\ IF o.kind # "status"
             THEN /\ pc' = "done"
                  /\ result' = ExceptionResult(o.kind, CallExcText(o.kind))
             ELSE /\ pc' = "done"
                  /\ result' = [success |-> TRUE, message |-> "Submitted successfully"]
    /\ UNCHANGED <<school, documents>>

-----------------------------------------------------------------------------
(* main_flow *)

NoUserData ==
    [verification_id |-> <<>>, first_name |-> <<>>, last_name |-> <<>>,
     full_name |-> <<>>, email |-> <<>>, school_name |-> <<>>]

\* The literal of the pattern (line 312).
Key == <<"v", "e", "r", "i", "f", "i", "c", "a", "t", "i", "o", "n", "I", "d", "=">>

UpperKey == <<"V", "E", "R", "I", "F", "I", "C", "A", "T", "I", "O", "N", "I", "D", "=">>

KeyWithoutEquals == <<"v", "e", "r", "i", "f", "i", "c", "a", "t", "i", "o", "n", "I", "d">>

\* Case folding of re.IGNORECASE, on the letters the inputs use.
Lower(c) ==
    CASE c = "A" -> "a" [] c = "B" -> "b" [] c = "C" -> "c" [] c = "D" -> "d"
      [] c = "E" -> "e" [] c = "F" -> "f" [] c = "G" -> "g" [] c = "I" -> "i"
      [] c = "N" -> "n" [] c = "O" -> "o" [] c = "R" -> "r" [] c = "T" -> "t"
      [] c = "V" -> "v" [] OTHER -> c

HexLower == {"0", "1", "2", "3", "4", "5", "6", "7", "8", "9",
             "a", "b", "c", "d", "e", "f"}

\* The class with every character admitted.
IsAnyChar(c) == TRUE

\* The class [a-f0-9] under re.IGNORECASE (lines 311-313).
IsHexChar(c) == Lower(c) \in HexLower

\* The pattern verificationId=([a-f0-9]{24}) matches url at position p.
MatchAt(u, p) ==
    /\ p + Len(Key) + IdLen - 1 <= Len(u)
    /\ \A i \in 1..Len(Key) : Lower(u[p + i - 1]) = Lower(Key[i])
    /\ \A j \in 1..IdLen : IsHexChar(u[p + Len(Key) + j - 1])

\* re.search: the leftmost position where the pattern matches, 0 for None.
Search(u) ==
    IF \E p \in 1..Len(u) : MatchAt(u, p)
    THEN CHOOSE p \in 1..Len(u) :
             MatchAt(u, p) /\ \A q \in 1..(p - 1) : ~MatchAt(u, q)
    ELSE 0

\* match.group(1) (line 321)
Group(u, p) == SubSeq(u, p + Len(Key), p + Len(Key) + IdLen - 1)

Run(n, c) == [i \in 1..n |-> c]

UrlPrefix == <<"h", "?">>

\* The identifier of the URL
\* https://services.sheerid.com/verify/abc?verificationId=0123456789abcdef01234567
ScenarioId ==
    <<"0", "1", "2", "3", "4", "5", "6", "7", "8", "9", "a", "b", "c", "d", "e", "f",
      "0", "1", "2", "3", "4", "5", "6", "7">>

\* Lines the operator types at the URL prompt.
UrlLines ==
    {<<>>,
     UrlPrefix \o Key \o ScenarioId,
     UrlPrefix \o Key \o Run(IdLen + 1, "a"),
     UrlPrefix \o UpperKey \o Run(IdLen, "F"),
     UrlPrefix \o Key \o Run(IdLen - 1, "a"),
     UrlPrefix \o Key \o Run(IdLen, "g"),
     UrlPrefix \o KeyWithoutEquals \o Run(IdLen, "a"),
     <<" ">> \o Run(IdLen, "a")}

\* str.split() (line 331): the words between runs of whitespace.
RECURSIVE SplitFrom(_, _, _)
SplitFrom(s, i, word) ==
    IF i > Len(s) THEN (IF word = <<>> THEN <<>> ELSE <<word>>)
    ELSE IF s[i] \in Whitespace
    THEN (IF word = <<>> THEN <<>> ELSE <<word>>) \o SplitFrom(s, i + 1, <<>>)
    ELSE SplitFrom(s, i + 1, Append(word, s[i]))

Split(s) == SplitFrom(s, 1, <<>>)

\* " ".join(parts) (line 339)
RECURSIVE JoinSpace(_)
JoinSpace(parts) ==
    IF parts = <<>> THEN <<>>
    ELSE IF Len(parts) = 1 THEN parts[1]
    ELSE parts[1] \o <<" ">> \o JoinSpace(Tail(parts))

\* Lines the operator types at the name prompt.
NameLines ==
    {<<>>, <<"a">>, <<" ", "a", " ">>, <<"a", " ", " ", "b", " ", "c">>}

\* The test of the name with one word accepted.
NameAcceptedOneWord(parts) == Len(parts) >= 1

\* Line 332: len(parts) < 2 is rejected.
NameAccepted(parts) == Len(parts) >= 2

\* Lines the operator types at the email prompt.
EmailLines ==
    {<<>>, <<"a", "b">>, <<"a", "@", "b">>, <<"a", ".", "b">>,
     <<"a", "@", "b", ".", "c">>}

Contains(s, c) == \E i \in DOMAIN s : s[i] = c

\* Line 347: "@" not in email or "." not in email is rejected.
EmailAccepted(e) == Contains(e, "@") /\ Contains(e, ".")

\* Lines the operator types at the school prompt.
QueryLines == {<<>>, <<" ">>, <<"s">>}

\* Outcomes of a category lookup in main_flow: a failure, an empty array, a
\* scenario array, an array with an element that is not an object, and an
\* array whose record has an identifier int() cannot convert.
MainLookupOutcomes ==
    {[kind |-> "status", data |-> <<>>],
     [kind |-> "list", data |-> <<>>],
     [kind |-> "list", data |-> ScenarioK12],
     [kind |-> "list", data |-> <<NotADict>>],
     [kind |-> "list", data |-> <<Rec(NonNumericId, "A")>>]}

MainPrompts == {"url", "name", "email", "school_query"}

\* Lines 304-324: one iteration of the URL loop.
MainUrl ==
    /\ mPc = "url"
    /\ \E ln \in UrlLines :
          LET u == Strip(ln) IN
          /\ url' = u
          /\ IF Search(u) = 0
             THEN UNCHANGED <<mPc, user_data>>
             ELSE /\ user_data' = [user_data EXCEPT !.verification_id = Group(u, Search(u))]
                  /\ mPc' = "name"
    /\ UNCHANGED <<queries, submitCalls, interrupted>>
    /\ UNCHANGED <<searchVars, selectVars, submitVars>>

\* Lines 327-342: one iteration of the name loop.
MainName ==
    /\ mPc = "name"
    /\ \E ln \in NameLines :
          LET full_name == Strip(ln)
              parts == Split(full_name)
          IN  IF ~NameAccepted(parts)
              THEN UNCHANGED <<mPc, user_data>>
              ELSE /\ user_data' = [user_data EXCEPT !.first_name = parts[1],
                                                    !.last_name = JoinSpace(Tail(parts)),
                                                    !.full_name = full_name]
                   /\ mPc' = "email"
    /\ UNCHANGED <<url, queries, submitCalls, interrupted>>
    /\ UNCHANGED <<searchVars, selectVars, submitVars>>

\* Lines 345-352: one iteration of the email loop.
MainEmail ==
    /\ mPc = "email"
    /\ \E ln \in EmailLines :
          LET email == Strip(ln) IN
          IF ~EmailAccepted(email)
          THEN UNCHANGED <<mPc, user_data>>
          ELSE /\ user_data' = [user_data EXCEPT !.email = email]
               /\ mPc' = "school_query"
    /\ UNCHANGED <<url, queries, submitCalls, interrupted>>
    /\ UNCHANGED <<searchVars, selectVars, submitVars>>

\* Lines 355-369: the school prompt and the call of search_schools.
MainQuery ==
    /\ mPc = "school_query"
    /\ queries < MaxQueries
    /\ \E ln \in QueryLines :
          LET school_name == Strip(ln) IN
          IF school_name = <<>>
          THEN UNCHANGED <<mPc, user_data, queries, searchVars>>
          ELSE /\ user_data' = [user_data EXCEPT !.school_name = school_name]
               /\ queries' = queries + 1
               /\ mPc' = "searching"
               /\ SearchStart
    /\ UNCHANGED <<url, submitCalls, interrupted>>
    /\ UNCHANGED <<selectVars, submitVars>>

\* Lines 55-83, called from main_flow: one iteration of the loop over the
\* school types.
MainSearchLookup ==
    /\ mPc = "searching"
    /\ sPc = "loop"
    /\ catIdx <= Len(SchoolTypes)
    /\ \E o \in MainLookupOutcomes :
          /\ lookups' = Append(lookups, o)
          /\ all_schools' = IF o.kind = "list" THEN all_schools \o o.data
                            ELSE all_schools
    /\ catIdx' = catIdx + 1
    /\ sPc' = IF catIdx = Len(SchoolTypes) THEN "aggregate" ELSE "loop"
    /\ UNCHANGED <<schools>>
    /\ UNCHANGED <<selectVars, submitVars, mainVars>>

\* The return of search_schools without the test for an empty list.
MainSearchReturnUnchecked ==
    /\ mPc = "searching"
    /\ sPc = "returned"
    /\ sPc' = "idle" /\ catIdx' = 1 /\ lookups' = <<>> /\ all_schools' = <<>>
    /\ UNCHANGED schools
    /\ mPc' = "select"
    /\ SelectStart
    /\ UNCHANGED <<url, user_data, queries, submitCalls, interrupted>>
    /\ UNCHANGED submitVars

\* Lines 369-378: search_schools returned (its locals are gone); an empty list
\* goes back to the school prompt, another one to display_schools_cli.
MainSearchReturn ==
    /\ mPc = "searching"
    /\ sPc = "returned"
    /\ sPc' = "idle" /\ catIdx' = 1 /\ lookups' = <<>> /\ all_schools' = <<>>
    /\ UNCHANGED schools
    /\ IF schools = <<>>
       THEN /\ mPc' = "school_query"
            /\ UNCHANGED selectVars
       ELSE /\ mPc' = "select"
            /\ SelectStart
    /\ UNCHANGED <<url, user_data, queries, submitCalls, interrupted>>
    /\ UNCHANGED submitVars

\* Lines 369 and 466: search_schools raised; main reports a fatal error.
MainSearchRaised ==
    /\ mPc = "searching"
    /\ sPc = "raised"
    /\ mPc' = "fatal"
    /\ UNCHANGED <<url, user_data, queries, submitCalls, interrupted>>
    /\ UNCHANGED <<searchVars, selectVars, submitVars>>

\* Lines 378-380: display_schools_cli returned idx (its local choice is gone).
MainSelectReturn ==
    /\ mPc = "select"
    /\ selPc = "returned"
    /\ choice' = <<>>
    /\ mPc' = "generate"
    /\ UNCHANGED <<selPc, stored, selRet>>
    /\ UNCHANGED <<url, user_data, queries, submitCalls, interrupted>>
    /\ UNCHANGED <<searchVars, submitVars>>

\* Lines 378 and 466: display_schools_cli raised; main reports a fatal error.
MainSelectRaised ==
    /\ mPc = "select"
    /\ selPc = "raised"
    /\ mPc' = "fatal"
    /\ UNCHANGED <<url, user_data, queries, submitCalls, interrupted>>
    /\ UNCHANGED <<searchVars, selectVars, submitVars>>

\* The interrupt at a prompt swallowed: the prompt is shown again.
MainInterruptIgnored ==
    /\ \/ mPc \in MainPrompts /\ UNCHANGED selectVars
       \/ mPc = "select" /\ selPc = "prompt" /\ UNCHANGED selectVars
    /\ interrupted' = TRUE
    /\ UNCHANGED <<mPc, url, user_data, queries, submitCalls>>
    /\ UNCHANGED <<searchVars, submitVars>>

\* Lines 40 and 461-465: input() raises KeyboardInterrupt at a prompt of
\* main_flow or of display_schools_cli; it leaves main_flow and main prints
\* "Process cancelled by user."
MainInterrupt ==
    /\ \/ mPc \in MainPrompts /\ UNCHANGED selectVars
       \/ mPc = "select" /\ SelectInterrupt
    /\ interrupted' = TRUE
    /\ mPc' = "cancelled"
    /\ UNCHANGED <<url, user_data, queries, submitCalls>>
    /\ UNCHANGED <<searchVars, submitVars>>

\* Lines 40 and 466-467: input() raises EOFError at a prompt of main_flow;
\* main reports a fatal error.
MainEndOfInput ==
    /\ mPc \in MainPrompts
    /\ mPc' = "fatal"
    /\ UNCHANGED <<url, user_data, queries, submitCalls, interrupted>>
    /\ UNCHANGED <<searchVars, selectVars, submitVars>>

\* Lines 382-438: generate and save the documents (which can raise), then call
\* submit_sheerid with the selected school.
MainGenerate ==
    /\ mPc = "generate"
    /\ \E generated \in BOOLEAN :
          IF generated
          THEN /\ school' = stored[selRet + 1]
               /\ submitCalls' = submitCalls + 1
               /\ mPc' = "submit"
          ELSE /\ mPc' = "fatal"
               /\ UNCHANGED <<school, submitCalls>>
    /\ UNCHANGED <<pc, requests, responses, documents, result>>
    /\ UNCHANGED <<url, user_data, queries, interrupted>>
    /\ UNCHANGED <<searchVars, selectVars>>

\* Lines 440-454: submit_sheerid returned; print the report.
MainReport ==
    /\ mPc = "submit"
    /\ pc = "done"
    /\ mPc' = "finished"
    /\ UNCHANGED <<url, user_data, queries, submitCalls, interrupted>>
    /\ UNCHANGED <<searchVars, selectVars, submitVars>>

-----------------------------------------------------------------------------
(* Specifications *)

SearchIdle ==
    /\ sPc = "idle"
    /\ catIdx = 1
    /\ lookups = <<>>
    /\ all_schools = <<>>

SelectIdle ==
    /\ selPc = "idle"
    /\ stored = <<>>
    /\ choice = <<>>
    /\ selRet = NoIndex

SubmitFresh ==
    /\ pc = "idle"
    /\ requests = <<>>
    /\ responses = <<>>
    /\ documents = <<>>
    /\ result = NoResult

SubmitIdle == SubmitFresh /\ school = Rec(1, "A")

MainFresh ==
    /\ url = <<>>
    /\ user_data = NoUserData
    /\ queries = 0
    /\ submitCalls = 0
    /\ interrupted = FALSE

\* main_flow is not running.
MainOff == mPc = "off" /\ MainFresh

\* search_schools on its own.
InitSearch == SearchIdle /\ schools = <<>> /\ SelectIdle /\ SubmitIdle /\ MainOff

NextSearch ==
    \/ SearchStart /\ UNCHANGED <<selectVars, submitVars, mainVars>>
    \/ SearchLookup /\ UNCHANGED <<selectVars, submitVars, mainVars>>
    \/ SearchAggregate /\ UNCHANGED <<selectVars, submitVars, mainVars>>

SpecSearch == InitSearch /\ [][NextSearch]_vars

\* display_schools_cli on its own, on any candidate list.
InitSelect ==
    SearchIdle /\ schools \in CandidateLists /\ SelectIdle /\ SubmitIdle /\ MainOff

NextSelect ==
    \/ SelectStart /\ UNCHANGED <<searchVars, submitVars, mainVars>>
    \/ SelectRead /\ UNCHANGED <<searchVars, submitVars, mainVars>>
    \/ SelectInterrupt /\ UNCHANGED <<searchVars, submitVars, mainVars>>

SpecSelect == InitSelect /\ [][NextSelect]_vars

\* submit_sheerid on its own, on any school argument.
InitSubmit ==
    /\ SearchIdle /\ schools = <<>> /\ SelectIdle /\ MainOff
    /\ SubmitFresh /\ school \in SubmitSchools

NextSubmit ==
    \/ SubmitStart /\ UNCHANGED <<searchVars, selectVars, mainVars>>
    \/ Step2 /\ UNCHANGED <<searchVars, selectVars, mainVars>>
    \/ Step3 /\ UNCHANGED <<searchVars, selectVars, mainVars>>
    \/ Step4 /\ UNCHANGED <<searchVars, selectVars, mainVars>>
    \/ Step5Pdf /\ UNCHANGED <<searchVars, selectVars, mainVars>>
    \/ Step5Png /\ UNCHANGED <<searchVars, selectVars, mainVars>>
    \/ Step6 /\ UNCHANGED <<searchVars, selectVars, mainVars>>

SpecSubmit == InitSubmit /\ [][NextSubmit]_vars

\* main_flow, from its first prompt.
InitMain ==
    /\ SearchIdle /\ schools = <<>> /\ SelectIdle /\ SubmitIdle
    /\ mPc = "url" /\ MainFresh

NextMain ==
    \/ MainUrl
    \/ MainName
    \/ MainEmail
    \/ MainQuery
    \/ MainSearchLookup
    \/ mPc = "searching" /\ SearchAggregate /\ UNCHANGED <<selectVars, submitVars, mainVars>>
    \/ MainSearchReturn
    \/ MainSearchRaised
    \/ mPc = "select" /\ SelectRead /\ UNCHANGED <<searchVars, submitVars, mainVars>>
    \/ MainSelectReturn
    \/ MainSelectRaised
    \/ MainInterrupt
    \/ MainEndOfInput
    \/ MainGenerate
    \/ mPc = "submit" /\ SubmitStart /\ UNCHANGED <<searchVars, selectVars, mainVars>>
    \/ mPc = "submit" /\ Step2 /\ UNCHANGED <<searchVars, selectVars, mainVars>>
    \/ mPc = "submit" /\ Step3 /\ UNCHANGED <<searchVars, selectVars, mainVars>>
    \/ mPc = "submit" /\ Step4 /\ UNCHANGED <<searchVars, selectVars, mainVars>>
    \/ mPc = "submit" /\ Step5Pdf /\ UNCHANGED <<searchVars, selectVars, mainVars>>
    \/ mPc = "submit" /\ Step5Png /\ UNCHANGED <<searchVars, selectVars, mainVars>>
    \/ mPc = "submit" /\ Step6 /\ UNCHANGED <<searchVars, selectVars, mainVars>>
    \/ MainReport

SpecMain == InitMain /\ [][NextMain]_vars

-----------------------------------------------------------------------------
(* Properties of search_schools *)

\* What the lookup of category c returned as a list (empty when it failed).
LookupData(c) ==
    IF c <= Len(lookups) /\ lookups[c].kind = "list" THEN lookups[c].data ELSE <<>>

\* The truthy identifiers of the dict elements of an array.
IdsOf(a) == {a[i].id : i \in {j \in DOMAIN a : a[j].kind = "dict" /\ a[j].id # 0}}

\* The first element of array a carrying identifier x.
FirstWith(a, x) == a[CHOOSE i \in DOMAIN a :
                        /\ a[i].id = x
                        /\ \A j \in 1..(i - 1) : a[j].id # x]

C5_AtMostTwenty ==
    sPc = "returned" => Len(schools) <= MaxResults

\* The lookups returned more than 20 distinct identifiers and search_schools
\* returned.
C5_Witness ==
    /\ sPc = "returned"
    /\ Cardinality(IdsOf(LookupData(1)) \cup IdsOf(LookupData(2))) > MaxResults
    /\ Len(schools) = MaxResults

\* A category lookup that failed or returned an empty array.
FailedOrEmpty(o) == o.kind # "list" \/ o.data = <<>>

\* C6: if every category lookup fails (non-200, non-array body, exception) or
\* returns an empty array, search_schools does not raise and returns an empty
\* sequence.
C6_AllFailedGivesEmpty ==
    (/\ Len(lookups) = Len(SchoolTypes)
     /\ \A c \in DOMAIN lookups : FailedOrEmpty(lookups[c]))
        => /\ sPc # "raised"
           /\ sPc = "returned" => schools = <<>>
           /\ sPc \in {"aggregate", "returned"}

\* Both lookups failed, in two different ways, and search_schools returned.
C6_Witness ==
    /\ sPc = "returned"
    /\ Len(lookups) = 2
    /\ lookups[1].kind = "exception"
    /\ lookups[2].kind = "status"
    /\ schools = <<>>

-----------------------------------------------------------------------------
(* Properties of display_schools_cli *)

\* C7: every value display_schools_cli returns is a zero-based index i with
\* 0 <= i < len(schools).
C7_IndexInRange ==
    selPc = "returned" => 0 <= selRet /\ selRet < Len(schools)

\* The selector returned the last index of a list of at least two candidates
\* on an input written with a leading zero.
C7_Witness ==
    /\ selPc = "returned"
    /\ Len(schools) >= 2
    /\ Head(choice) = "0"
    /\ selRet = Len(schools) - 1

\* A well-formed selection: a decimal number between 1 and n.
WellFormed(c, n) ==
    /\ c # <<>>
    /\ \A i \in DOMAIN c : c[i] \in DecimalDigits
    /\ 1 <= IntOf(c) /\ IntOf(c) <= n

\* C8: the selection loop ends, by returning or by raising, only on a valid
\* in-range input; after a malformed input it prompts again.
C8_EndsOnlyOnValidInput ==
    selPc \in {"returned", "raised"} => WellFormed(choice, Len(schools))

-----------------------------------------------------------------------------
(* Properties of submit_sheerid *)
\* responses[1] is the outcome of step 2, [2] of step 3, [3] of step 4, [4] of
\* the PDF transfer, [5] of the PNG transfer and [6] of step 6.

IsStatus(i) == i <= Len(responses) /\ responses[i].kind = "status"

Returned200(i) == IsStatus(i) /\ responses[i].code = 200

TimedOut(i) == i <= Len(responses) /\ responses[i].kind = "timeout"

\* C1: when the step 2 POST or the step 4 POST returns a status code other
\* than 200, the run has ended with a failure whose message embeds that code,
\* and no request of a later step has been issued.
C1_GatedStepHalts ==
    /\ (IsStatus(1) /\ responses[1].code # 200) =>
          /\ pc = "done"
          /\ result = Failure("Step 2 failed: " \o IntStr(responses[1].code))
          /\ Len(requests) = 1
    /\ (IsStatus(3) /\ responses[3].code # 200) =>
          /\ pc = "done"
          /\ result = Failure("Step 4 failed: " \o IntStr(responses[3].code))
          /\ Len(requests) = 3
          /\ \A i \in DOMAIN requests : requests[i].method # "PUT"

\* Step 2 returned 404 and the run ended with "Step 2 failed: 404".
C1_Witness ==
    /\ pc = "done"
    /\ IsStatus(1)
    /\ responses[1].code = 404
    /\ result.message = "Step 2 failed: 404"
    /\ requests = <<Request("POST", "step/collectTeacherPersonalInfo", "json")>>

\* The documents list of a 200 upload-slot response that has one (an absent
\* "documents" field counts as the empty list).
HasDocumentList(i) ==
    Returned200(i) /\ responses[i].body.kind \in {"nodocs", "docs"}

\* C2: when step 4 returns 200 with fewer than two documents (or no documents
\* field), the run has ended with "No upload URLs received from SheerID" and
\* neither a transfer nor the completion call has been issued.
C2_FewerThanTwoDocuments ==
    (HasDocumentList(3) /\ Len(responses[3].body.docs) < 2) =>
        /\ pc = "done"
        /\ result = [success |-> FALSE,
                     message |-> "No upload URLs received from SheerID"]
        /\ Len(requests) = 3

\* Scenario C: step 4 returned 200 with a single document entry.
C2_Witness ==
    /\ pc = "done"
    /\ HasDocumentList(3)
    /\ responses[3].body.docs = <<"urlA">>
    /\ result.message = "No upload URLs received from SheerID"

StepAfter(n) ==
    CASE n = 0 -> "step2" [] n = 1 -> "step3" [] n = 2 -> "step4"
      [] n = 3 -> "step5pdf" [] n = 4 -> "step5png" [] n = 5 -> "step6"

\* C3: when steps 2 and 4 returned 200, step 4 with at least two documents,
\* then whatever status codes steps 3, 5 and 6 return, the run ends with
\* overall success once all six calls have returned a status; before that the
\* machine is at the next step, a status code never halts it (it halts early
\* only on an exception raised before a request: a school record that cannot
\* be put in the body, or a document entry without an upload target).
C3_SuccessRegardlessOfStatus ==
    (/\ pc # "idle"
     /\ \A i \in DOMAIN responses : responses[i].kind = "status"
     /\ Len(responses) >= 1 => Returned200(1)
     /\ Len(responses) >= 3 => HasDocumentList(3) /\ Len(responses[3].body.docs) >= 2)
        => IF Len(responses) = 6
           THEN pc = "done" /\ result = [success |-> TRUE, message |-> "Submitted successfully"]
           ELSE \/ pc = StepAfter(Len(responses))
                \/ pc = "done" /\ Len(responses) = 0
                \/ /\ pc = "done"
                   /\ Len(responses) \in {3, 4}
                   /\ documents[Len(responses) - 2] = NoUrl

\* Steps 3, 5 and 6 all returned error statuses and the run reported success.
C3_Witness ==
    /\ pc = "done"
    /\ result.success
    /\ Len(responses) = 6
    /\ responses[2].code = 500
    /\ responses[4].code = 404
    /\ responses[5].code = 500
    /\ responses[6].code = 404

\* C9 as stated: a timeout at step 3, 5 or 6 does not end the run in failure
\* (the machine advances past the step), a timeout at step 2 or 4 does.
C9_TimeoutNonTerminalAfterGates ==
    /\ \A i \in {2, 4, 5, 6} : TimedOut(i) => ~(pc = "done" /\ ~result.success)
    /\ \A i \in {1, 3} : TimedOut(i) => pc = "done" /\ ~result.success

\* C9, amended: a timeout at step 3, 5 or 6 is terminal like one at step 2 or
\* 4: the timed-out call is the last request of the run, the machine does not
\* advance past it, and the run ends in failure.
C9_TimeoutTerminalAtEveryStep ==
    \A i \in 1..6 :
        TimedOut(i) => /\ pc = "done"
                       /\ ~result.success
                       /\ Len(requests) = i
                       /\ Len(responses) = i

\* The SSO delete of step 3 timed out and the run ended after two requests.
C9_Witness ==
    /\ TimedOut(2)
    /\ pc = "done"
    /\ ~result.success
    /\ Len(requests) = 2

\* C10: a timeout on any network call of steps 2-6 ends the run with the
\* message "Request timeout - please try again", the timed-out call being the
\* last request issued.
C10_TimeoutFixedMessage ==
    (\E i \in DOMAIN responses : TimedOut(i)) =>
        /\ pc = "done"
        /\ result = [success |-> FALSE,
                     message |-> "Request timeout - please try again"]
        /\ TimedOut(Len(requests))

\* The completion call timed out after both transfers.
C10_Witness ==
    /\ TimedOut(6)
    /\ pc = "done"
    /\ result.message = "Request timeout - please try again"
    /\ requests[4].method = "PUT" /\ requests[5].method = "PUT"

\* The fixed order of the requests of one run; the two PUTs go to the upload
\* targets step 4 returned.
ExpectedRequest(i) ==
    CASE i = 1 -> Request("POST", "step/collectTeacherPersonalInfo", "json")
      [] i = 2 -> Request("DELETE", "step/sso", "")
      [] i = 3 -> Request("POST", "step/docUpload", "json")
      [] i = 4 -> Request("PUT", documents[1], "application/pdf")
      [] i = 5 -> Request("PUT", documents[2], "image/png")
      [] i = 6 -> Request("POST", "step/completeDocUpload", "")

\* C11: the requests issued in a run are a prefix of the fixed sequence
\* personal-info POST, SSO DELETE, upload-slot POST, PDF PUT, PNG PUT,
\* completion POST: none is issued twice or out of order, and every request but
\* the last one has returned a response before the next was issued.
C11_RequestsFormPrefix ==
    /\ Len(requests) <= 6
    /\ Len(responses) = Len(requests)
    /\ \A i \in DOMAIN requests : requests[i] = ExpectedRequest(i)
    /\ \A i \in 1..(Len(requests) - 1) : IsStatus(i)

\* A run that issued all six requests.
C11_Witness ==
    /\ pc = "done"
    /\ Len(requests) = 6
    /\ requests[6].url = "step/completeDocUpload"
    /\ requests[4].url # requests[5].url

\* The possible causes of a failure result, read off the responses.
CauseStep2 == IsStatus(1) /\ responses[1].code # 200

CauseStep4 == IsStatus(3) /\ responses[3].code # 200

CauseFewDocuments == HasDocumentList(3) /\ Len(responses[3].body.docs) < 2

CauseTimeout == \E i \in DOMAIN responses : TimedOut(i)

CauseException ==
    \/ \E i \in DOMAIN responses : responses[i].kind = "error"
    \/ Returned200(3) /\ responses[3].body.kind \in {"notjson", "null"}
    \/ Len(responses) = 0
    \/ /\ Len(responses) \in {3, 4}
       /\ IsStatus(Len(responses))
       /\ HasDocumentList(3)
       /\ Len(documents) >= 2
       /\ documents[Len(responses) - 2] = NoUrl

Causes == <<CauseStep2, CauseStep4, CauseFewDocuments, CauseTimeout, CauseException>>

FixedMessages ==
    {"No upload URLs received from SheerID", "Request timeout - please try again",
     "Submitted successfully", "none"}
        \cup {"Step 2 failed: " \o IntStr(c) : c \in Statuses}
        \cup {"Step 4 failed: " \o IntStr(c) : c \in Statuses}

\* C15: submit_sheerid never leaves by an exception and, until it has
\* returned, can always take its next step; a run that has ended carries one
\* result, and a failure result has exactly one cause among step 2 non-200,
\* step 4 non-200, fewer than two documents, a timeout and another exception,
\* its message being the one of that cause; a success has none.
C15_OneResultOneCause ==
    /\ pc \in {"idle", "step2", "step3", "step4", "step5pdf", "step5png", "step6", "done"}
    /\ pc # "done" => result = NoResult /\ ENABLED NextSubmit
    /\ pc = "done" =>
          /\ result # NoResult
          /\ result.success => \A k \in 1..5 : ~Causes[k]
          /\ ~result.success =>
                /\ Cardinality({k \in 1..5 : Causes[k]}) = 1
                /\ CauseStep2 => result.message = "Step 2 failed: " \o IntStr(responses[1].code)
                /\ CauseStep4 => result.message = "Step 4 failed: " \o IntStr(responses[3].code)
                /\ CauseFewDocuments => result.message = "No upload URLs received from SheerID"
                /\ CauseTimeout => result.message = "Request timeout - please try again"
                /\ CauseException => result.message \notin FixedMessages

\* A failure by an exception other than a timeout: the PNG transfer failed
\* in the transport.
C15_Witness ==
    /\ pc = "done"
    /\ Len(responses) = 5
    /\ responses[5].kind = "error"
    /\ result = Failure("Submission error: connection failed")

\* C16: once step 4 returned 200 with at least two documents, the first two
\* carrying an upload target, the PDF is PUT to the first target with content
\* type application/pdf; whatever status that transfer returns the machine
\* is at the PNG transfer, which PUTs to the second target with content type
\* image/png; no other PUT is issued.
C16_BothTransfersAttempted ==
    (/\ HasDocumentList(3)
     /\ Len(responses[3].body.docs) >= 2
     /\ responses[3].body.docs[1] # NoUrl
     /\ responses[3].body.docs[2] # NoUrl)
        => LET docs == responses[3].body.docs IN
           /\ Len(requests) = 3 => pc = "step5pdf" /\ ENABLED Step5Pdf
           /\ Len(requests) >= 4 =>
                 requests[4] = Request("PUT", docs[1], "application/pdf")
           /\ (IsStatus(4) /\ Len(requests) = 4) => pc = "step5png" /\ ENABLED Step5Png
           /\ Len(requests) >= 5 =>
                 requests[5] = Request("PUT", docs[2], "image/png")
           /\ (pc = "done" /\ IsStatus(4)) => Len(requests) >= 5
           /\ \A i \in DOMAIN requests : requests[i].method = "PUT" => i \in {4, 5}

\* The PDF transfer returned 500 and the PNG was still PUT to the second target.
C16_Witness ==
    /\ IsStatus(4)
    /\ responses[4].code = 500
    /\ Len(requests) >= 5
    /\ requests[4] = Request("PUT", "urlA", "application/pdf")
    /\ requests[5] = Request("PUT", "urlB", "image/png")

\* C20: a school record whose id int() cannot convert, or without a name (or
\* without an id), ends the run before any request: the result is a failure
\* whose message embeds the description of the exception.
C20_BadSchoolNoRequest ==
    /\ (pc # "idle" /\ (school.id = NonNumericId \/ school.name = NoName)) =>
          /\ pc = "done"
          /\ requests = <<>>
          /\ school.id = NonNumericId =>
                result = Failure("Submission error: invalid literal for int()")
          /\ (school.id = 1 /\ school.name = NoName) =>
                result = Failure("Submission error: 'name'")
    /\ (pc = "done" /\ requests = <<>>) =>
          /\ ~result.success
          /\ result.message \in
                {"Submission error: " \o e : e \in BodyErrors(school) \ {"ok"}}

\* The run with a school whose id is not numeric ended without a request.
C20_Witness ==
    /\ pc = "done"
    /\ school.id = NonNumericId
    /\ requests = <<>>
    /\ result.message = "Submission error: invalid literal for int()"

-----------------------------------------------------------------------------
(* Further properties of search_schools *)

\* A response array with an element that is not an object.
Malformed(o) == o.kind = "list" /\ \E i \in DOMAIN o.data : o.data[i].kind # "dict"

\* A category lookup that failed: non-200 status, malformed body, or an
\* exception of the transport.
LookupFailed(o) == o.kind \in {"status", "notlist", "exception"} \/ Malformed(o)

\* C13: a failed category lookup does not keep the other category's lookup
\* from being issued nor its results from being returned, and search_schools
\* does not raise because of it.
C13_FailureIsolated ==
    \A c \in DOMAIN lookups :
        LookupFailed(lookups[c]) =>
            /\ sPc # "raised"
            /\ sPc \in {"aggregate", "returned"} => Len(lookups) = Len(SchoolTypes)
            /\ \A o \in DOMAIN lookups :
                  (sPc = "returned" /\ o # c /\ ~LookupFailed(lookups[o])
                     /\ Cardinality(IdsOf(lookups[o].data)) <= MaxResults)
                      => IdsOf(lookups[o].data) = {schools[i].id : i \in DOMAIN schools}

\* The concatenation of the results of the successful lookups, in category order.
Concatenation == LookupData(1) \o LookupData(2)

\* The k-th smallest element of a set of numbers.
KthSmallest(S, k) == CHOOSE x \in S : Cardinality({y \in S : y < x}) = k - 1

Min(a, b) == IF a <= b THEN a ELSE b

\* The elements of a at the positions P, in order, cut to the first 20.
ReferenceResult(a, P) ==
    [k \in 1..Min(Cardinality(P), MaxResults) |-> a[KthSmallest(P, k)]]

\* Positions of the first occurrence of every identifier.
FirstOccurrences(a) ==
    {i \in DOMAIN a : \A j \in 1..(i - 1) : a[j].id # a[i].id}

\* Positions of the first occurrence of every identifier that is present
\* (truthy).
FirstTruthyOccurrences(a) == {i \in FirstOccurrences(a) : a[i].id # 0}

\* C14 as stated: the result is the concatenation deduplicated by identifier
\* (first occurrence kept, order kept) and cut to 20, so that every record
\* whose identifier was not seen earlier is in the output.
C14_EqualsReference ==
    sPc = "returned" =>
        schools = ReferenceResult(Concatenation, FirstOccurrences(Concatenation))

\* C14, amended: the result is the concatenation without the records whose
\* identifier is missing or falsy, deduplicated by identifier (first
\* occurrence kept, order kept) and cut to 20.
C14_EqualsReferenceOfIdentified ==
    sPc = "returned" =>
        schools = ReferenceResult(Concatenation, FirstTruthyOccurrences(Concatenation))

\* Both categories contributed, one record had no identifier and one
\* identifier was returned by both categories.
C14_Witness ==
    /\ sPc = "returned"
    /\ LookupData(1) = <<Rec(0, "A"), Rec(1, "A")>>
    /\ LookupData(2) = <<Rec(1, "B"), Rec(2, "B")>>
    /\ schools = <<Rec(1, "A"), Rec(2, "B")>>

-----------------------------------------------------------------------------
(* Properties of main_flow *)

\* main_flow has left the URL loop with an identifier.
PastUrl == user_data.verification_id # <<>>

UpperHex == {"A", "B", "C", "D", "E", "F"}

\* u carries, somewhere, the literal verificationId= (in any letter case)
\* followed by the characters of id.
CarriesParameter(u, id) ==
    \E p \in 1..Len(u) :
        /\ p + Len(Key) + Len(id) - 1 <= Len(u)
        /\ \A i \in 1..Len(Key) : u[p + i - 1] \in {Key[i], UpperKey[i]}
        /\ SubSeq(u, p + Len(Key), p + Len(Key) + Len(id) - 1) = id

\* u carries the parameter with some identifier of IdLen hexadecimal characters.
HasParameter(u) ==
    \E p \in 1..Len(u) :
        /\ p + Len(Key) + IdLen - 1 <= Len(u)
        /\ \A i \in 1..Len(Key) : u[p + i - 1] \in {Key[i], UpperKey[i]}
        /\ \A j \in 1..IdLen : u[p + Len(Key) + j - 1] \in HexLower \cup UpperHex

\* C12 as stated: the identifier main_flow extracts consists of exactly 24
\* lowercase hexadecimal characters following verificationId=, and a URL
\* without such a parameter is rejected and the URL prompt repeated.
C12_LowercaseHexId ==
    /\ PastUrl =>
          /\ Len(user_data.verification_id) = IdLen
          /\ \A i \in 1..IdLen : user_data.verification_id[i] \in HexLower
          /\ CarriesParameter(url, user_data.verification_id)
    /\ (mPc = "url" /\ url # <<>>) => ~HasParameter(url) /\ ~PastUrl

\* C12, amended: the identifier main_flow extracts consists of exactly 24
\* hexadecimal characters of either case, following verificationId= written in
\* any letter case; a URL without such a parameter is rejected and the URL
\* prompt repeated.
C12_HexIdOfEitherCase ==
    /\ PastUrl =>
          /\ Len(user_data.verification_id) = IdLen
          /\ \A i \in 1..IdLen : user_data.verification_id[i] \in HexLower \cup UpperHex
          /\ CarriesParameter(url, user_data.verification_id)
          /\ mPc # "url"
    /\ (mPc = "url" /\ url # <<>>) => ~HasParameter(url) /\ ~PastUrl
    /\ mPc \notin {"url", "cancelled", "fatal"} => PastUrl

\* Scenario B: the identifier 0123456789abcdef01234567 was extracted and the
\* flow went on to the name prompt.
C12_Witness ==
    /\ mPc = "name"
    /\ user_data.verification_id = ScenarioId
    /\ url = UrlPrefix \o Key \o ScenarioId

\* C17: submit_sheerid is called at most once in a run, and when it has been
\* called the verification identifier, first name, last name and email have
\* been collected and validated and the school is the one chosen from the
\* candidate list.
C17_SubmitOnceFullyPopulated ==
    /\ submitCalls <= 1
    /\ (pc # "idle" \/ submitCalls > 0) =>
          /\ submitCalls = 1
          /\ mPc \in {"submit", "finished"}
          /\ Len(user_data.verification_id) = IdLen
          /\ user_data.first_name # <<>>
          /\ ~Contains(user_data.first_name, " ")
          /\ user_data.last_name # <<>>
          /\ Contains(user_data.email, "@") /\ Contains(user_data.email, ".")
          /\ user_data.school_name # <<>>
          /\ selRet \in 0..(Len(schools) - 1)
          /\ school = schools[selRet + 1]
          /\ school.id # 0

\* submit_sheerid was called once, ran to its end, and main_flow reported.
C17_Witness ==
    /\ mPc = "finished"
    /\ submitCalls = 1
    /\ result.success
    /\ user_data.first_name = <<"a">>
    /\ user_data.last_name = <<"b", " ", "c">>

\* C18: display_schools_cli is never called with an empty candidate list;
\* after search_schools has returned an empty list the flow is back at the
\* school prompt, where it can query again; and the record passed on to the
\* submission is the element of the last candidate list at the index the
\* selector returned.
C18_RequeryOnEmpty ==
    /\ selPc # "idle" => schools # <<>> /\ stored = schools
    /\ (mPc \in {"select", "generate", "submit", "finished"}) => schools # <<>>
    /\ (sPc = "idle" /\ queries > 0 /\ schools = <<>> /\ mPc \notin {"cancelled", "fatal"})
          => /\ mPc = "school_query"
             /\ queries < MaxQueries => ENABLED MainQuery
    /\ mPc \in {"generate", "submit", "finished"} => selRet \in 0..(Len(schools) - 1)
    /\ mPc \in {"submit", "finished"} => school = schools[selRet + 1]

\* The first query found nothing, the second one did, and the second
\* candidate of its list went to the submission.
C18_Witness ==
    /\ queries = 2
    /\ mPc = "submit"
    /\ Len(schools) = 4
    /\ selRet = 1
    /\ school = Rec(2, "A")

\* C19: once a KeyboardInterrupt was raised at a prompt the flow is over: no
\* step of it is enabled any more, so no further request is issued, and no
\* request of the submission protocol was or will be issued in that run.
C19_InterruptAborts ==
    interrupted =>
        /\ mPc = "cancelled"
        /\ requests = <<>>
        /\ pc = "idle"
        /\ submitCalls = 0
        /\ sPc = "idle"
        /\ ~ENABLED NextMain

\* The interrupt came at the selection prompt, after the lookups of one query.
C19_Witness ==
    /\ interrupted
    /\ selPc = "interrupted"
    /\ queries = 1
    /\ mPc = "cancelled"

====
